---- MODULE Spec2Model ----
(***************************************************************************)
(* A model of swip: the Kartesian SignWriting (KSW) grammar and parser     *)
(* (parser.py), the glyph addressing of the ISWA font (iswa_font.py) and   *)
(* the bounding-box computation of the composition (compose.py).           *)
(*                                                                         *)
(* A Python string is a sequence of one-character strings.  A call of a    *)
(* function of the package is one action: from "idle" a caller invokes an  *)
(* operation with an input drawn from a bounded set; op, arg and ret then  *)
(* hold the operation, its input and what it returned or raised, and frame *)
(* the local variables of a call that runs in several steps.               *)
(***************************************************************************)
EXTENDS Integers, Sequences, FiniteSets, TLC

VARIABLES pc, op, arg, ret, frame

vars == <<pc, op, arg, ret, frame>>

(***************************************************************************)
(* Characters and Python's re.IGNORECASE on ASCII.                         *)
(***************************************************************************)
DecDigits == <<"0", "1", "2", "3", "4", "5", "6", "7", "8", "9">>

HexLower == <<"0", "1", "2", "3", "4", "5", "6", "7", "8", "9",
              "a", "b", "c", "d", "e", "f">>

HexUpper == <<"0", "1", "2", "3", "4", "5", "6", "7", "8", "9",
              "A", "B", "C", "D", "E", "F">>

UpperChars == <<"A", "B", "C", "D", "E", "F", "L", "M", "N", "R", "S", "X">>

LowerChars == <<"a", "b", "c", "d", "e", "f", "l", "m", "n", "r", "s", "x">>

Range(f) == {f[i] : i \in DOMAIN f}

IndexOf(f, c) == CHOOSE i \in DOMAIN f : f[i] = c

Lower(c) == IF c \in Range(UpperChars) THEN LowerChars[IndexOf(UpperChars, c)] ELSE c

Upper(c) == IF c \in Range(LowerChars) THEN UpperChars[IndexOf(LowerChars, c)] ELSE c

\* A literal pattern character p against c; ic is re.IGNORECASE.
EqChar(c, p, ic) == c = p \/ (ic /\ Lower(c) = Lower(p))

\* A character class against c; ic is re.IGNORECASE.
InClass(c, class, ic) == c \in class \/ (ic /\ (Lower(c) \in class \/ Upper(c) \in class))

ClassDigit == Range(DecDigits)

ClassHex == Range(HexLower)

Class123 == {"1", "2", "3"}

Class05 == {"0", "1", "2", "3", "4", "5"}

ClassMarker == {"B", "L", "M", "R"}

ClassPunc == {"7", "8", "9", "a", "b"}

SubStr(s, i, j) == IF j < i THEN <<>> ELSE SubSeq(s, i, j)

(***************************************************************************)
(* The regular expressions of parser.py.  A matcher M(s, i, ..) is the set *)
(* of positions at which a match of the pattern that starts at position i  *)
(* of s can end (the position after its last character): the pattern      *)
(* matches the whole of s from i iff Len(s) + 1 is in the set.             *)
(***************************************************************************)
\* SYMBOL_BLOCK = 'S[123][0-9a-f]{2}[0-5][0-9a-f]'
MSymbol(s, i, ic) ==
    IF /\ i + 5 <= Len(s)
       /\ EqChar(s[i], "S", ic)
       /\ InClass(s[i + 1], Class123, ic)
       /\ InClass(s[i + 2], ClassHex, ic)
       /\ InClass(s[i + 3], ClassHex, ic)
       /\ InClass(s[i + 4], Class05, ic)
       /\ InClass(s[i + 5], ClassHex, ic)
    THEN {i + 6} ELSE {}

\* re_punc = 'S38[7-9ab][0-5][0-9a-f]'
MPunc(s, i, ic) ==
    IF /\ i + 5 <= Len(s)
       /\ EqChar(s[i], "S", ic)
       /\ EqChar(s[i + 1], "3", ic)
       /\ EqChar(s[i + 2], "8", ic)
       /\ InClass(s[i + 3], ClassPunc, ic)
       /\ InClass(s[i + 4], Class05, ic)
       /\ InClass(s[i + 5], ClassHex, ic)
    THEN {i + 6} ELSE {}

\* '[0-9]+'
MDigits(s, i) ==
    {j \in (i + 1)..(Len(s) + 1) : \A k \in i..(j - 1) : s[k] \in ClassDigit}

\* a literal character
MLit(s, i, p, ic) == IF i <= Len(s) /\ EqChar(s[i], p, ic) THEN {i + 1} ELSE {}

\* 'n?[0-9]+'
MNumber(s, i, ic) == UNION {MDigits(s, j) : j \in {i} \cup MLit(s, i, "n", ic)}

\* POS_COORD_BLOCK = '[0-9]+x[0-9]+'
MPosCoord(s, i, ic) ==
    UNION {MDigits(s, k) : k \in UNION {MLit(s, j, "x", ic) : j \in MDigits(s, i)}}

\* COORD_BLOCK = 'n?[0-9]+xn?[0-9]+'
MCoord(s, i, ic) ==
    UNION {MNumber(s, k, ic) : k \in UNION {MLit(s, j, "x", ic) : j \in MNumber(s, i, ic)}}

\* SYMBOL_BLOCK + COORD_BLOCK
MSymCoord(s, i, ic) == UNION {MCoord(s, j, ic) : j \in MSymbol(s, i, ic)}

\* '(' + SYMBOL_BLOCK + COORD_BLOCK + ')*'
RECURSIVE MSymCoordStar(_, _, _)
MSymCoordStar(s, i, ic) ==
    {i} \cup UNION {MSymCoordStar(s, j, ic) : j \in MSymCoord(s, i, ic)}

\* '(' + SYMBOL_BLOCK + ')*'
RECURSIVE MSymbolStar(_, _, _)
MSymbolStar(s, i, ic) ==
    {i} \cup UNION {MSymbolStar(s, j, ic) : j \in MSymbol(s, i, ic)}

\* 'A(' + SYMBOL_BLOCK + ')+' : the pattern of PREFIX, and '(A(..)+)?' below
MPrefix(s, i, ic) ==
    UNION {MSymbolStar(s, k, ic) : k \in UNION {MSymbol(s, j, ic) : j \in MLit(s, i, "A", ic)}}

MOptPrefix(s, i, ic) == {i} \cup MPrefix(s, i, ic)

\* '[BLMR]'
MMarker(s, i, ic) == IF i <= Len(s) /\ InClass(s[i], ClassMarker, ic) THEN {i + 1} ELSE {}

Max(S) == CHOOSE m \in S : \A n \in S : n <= m

(***************************************************************************)
(* The token grammars (parser.py lines 15-45).                             *)
(***************************************************************************)
\* a sized symbol whose size may be left out: SYMBOL_BLOCK + '(' + POS_COORD_BLOCK + 'x)?'
\* + COORD_BLOCK
MSymSizeOptional(s, i, ic) ==
    UNION {MCoord(s, l, ic) :
           l \in UNION {{j} \cup UNION {MLit(s, k, "x", ic) : k \in MPosCoord(s, j, ic)} :
                        j \in MSymbol(s, i, ic)}}

\* '(' + SYMBOL_BLOCK + POS_COORD_BLOCK + 'x' + COORD_BLOCK + ')*'
MSymSized(s, i, ic) ==
    UNION {MCoord(s, l, ic) :
           l \in UNION {MLit(s, k, "x", ic) :
                        k \in UNION {MPosCoord(s, j, ic) : j \in MSymbol(s, i, ic)}}}

RECURSIVE MSymSizedStar(_, _, _)
MSymSizedStar(s, i, ic) ==
    {i} \cup UNION {MSymSizedStar(s, j, ic) : j \in MSymSized(s, i, ic)}

\* re_word
MWord(s, i, ic) ==
    UNION {MSymCoordStar(s, k, ic) :
           k \in UNION {MMarker(s, j, ic) : j \in MOptPrefix(s, i, ic)}}

\* re_pword
MPWord(s, i, ic) ==
    UNION {MSymSizedStar(s, k, ic) :
           k \in UNION {MMarker(s, j, ic) : j \in MOptPrefix(s, i, ic)}}

\* re_panelword
MPanelWord(s, i, ic) ==
    UNION {MSymCoordStar(s, k, ic) :
           k \in UNION {MPosCoord(s, j, ic) : j \in MMarker(s, i, ic)}}

\* re_lword
MLWord(s, i, ic) == UNION {MPanelWord(s, j, ic) : j \in MOptPrefix(s, i, ic)}

\* re_ppunc
MPPunc(s, i, ic) == UNION {MPosCoord(s, j, ic) : j \in MPunc(s, i, ic)}

\* re_lpunc
MLPunc(s, i, ic) == UNION {MCoord(s, j, ic) : j \in MPunc(s, i, ic)}

FullMatch(ends, s) == (Len(s) + 1) \in ends

\* RAW_TOKEN.fullmatch(token)
RAW_TOKEN(token) == FullMatch(MWord(token, 1, TRUE) \cup MPunc(token, 1, TRUE), token)

\* EXPANDED_TOKEN.fullmatch(token)
EXPANDED_TOKEN(token) == FullMatch(MPWord(token, 1, TRUE) \cup MPPunc(token, 1, TRUE), token)

\* LAYOUT_TOKEN.fullmatch(token)
LAYOUT_TOKEN(token) == FullMatch(MLWord(token, 1, TRUE) \cup MLPunc(token, 1, TRUE), token)

\* str.split(): the maximal runs of non-blank characters
RECURSIVE SplitFrom(_, _, _)
SplitFrom(s, i, cur) ==
    IF i > Len(s) THEN (IF cur = <<>> THEN <<>> ELSE <<cur>>)
    ELSE IF s[i] = " " THEN (IF cur = <<>> THEN <<>> ELSE <<cur>>) \o SplitFrom(s, i + 1, <<>>)
    ELSE SplitFrom(s, i + 1, Append(cur, s[i]))

Split(s) == SplitFrom(s, 1, <<>>)

is_raw(text) == \A t \in Range(Split(text)) : RAW_TOKEN(t)

is_expanded(text) == \A t \in Range(Split(text)) : EXPANDED_TOKEN(t)

is_layouted(text) == \A t \in Range(Split(text)) : LAYOUT_TOKEN(t)

(***************************************************************************)
(* re.findall and str.replace: a scan from the left, taking the greedy     *)
(* match at each position and going on after it.                           *)
(***************************************************************************)
\* re.findall(SYMBOL_BLOCK, s, flags=re.IGNORECASE)
RECURSIVE FindAllSymbols(_, _)
FindAllSymbols(s, i) ==
    IF i > Len(s) THEN <<>>
    ELSE IF MSymbol(s, i, TRUE) # {}
         THEN <<SubSeq(s, i, i + 5)>> \o FindAllSymbols(s, i + 6)
         ELSE FindAllSymbols(s, i + 1)

\* re.findall(SYMBOL_BLOCK + COORD_BLOCK, s)
RECURSIVE FindAllSymCoord(_, _)
FindAllSymCoord(s, i) ==
    IF i > Len(s) THEN <<>>
    ELSE IF MSymCoord(s, i, FALSE) # {}
         THEN LET e == Max(MSymCoord(s, i, FALSE))
              IN  <<SubSeq(s, i, e - 1)>> \o FindAllSymCoord(s, e)
         ELSE FindAllSymCoord(s, i + 1)

StartsWith(s, i, pat) ==
    i + Len(pat) - 1 <= Len(s) /\ SubSeq(s, i, i + Len(pat) - 1) = pat

\* s.replace(pat, ''), pat not empty
RECURSIVE Replace(_, _, _)
Replace(s, i, pat) ==
    IF i > Len(s) THEN <<>>
    ELSE IF StartsWith(s, i, pat) THEN Replace(s, i + Len(pat), pat)
    ELSE <<s[i]>> \o Replace(s, i + 1, pat)

RECURSIVE Join(_)
Join(ss) == IF ss = <<>> THEN <<>> ELSE Head(ss) \o Join(Tail(ss))

\* prefix_symbols(sw_string)
prefix_symbols(sw_string) ==
    IF MPrefix(sw_string, 1, TRUE) = {} THEN <<>>
    ELSE FindAllSymbols(SubStr(sw_string, 1, Max(MPrefix(sw_string, 1, TRUE)) - 1), 1)

(***************************************************************************)
(* Numbers.  A coordinate of a cluster is an integer or one of the floats  *)
(* -inf, +inf (parser.py lines 423, 439): [inf |-> -1, 0 or 1, v |-> n];   *)
(* [inf |-> 2] is the float nan.                                           *)
(***************************************************************************)
Fin(n) == [inf |-> 0, v |-> n]

NegInf == [inf |-> 0 - 1, v |-> 0]

PosInf == [inf |-> 1, v |-> 0]

NaN == [inf |-> 2, v |-> 0]

\* a < b; a comparison with nan is false
ExtLess(a, b) ==
    /\ a.inf # 2 /\ b.inf # 2
    /\ a.inf < b.inf \/ (a.inf = 0 /\ b.inf = 0 /\ a.v < b.v)

\* Python's max(a, b) and min(a, b): the first argument unless the second is beyond it
PyMax(a, b) == IF ExtLess(a, b) THEN b ELSE a

PyMin(a, b) == IF ExtLess(b, a) THEN b ELSE a

\* -a
ExtNeg(a) == IF a.inf = 2 THEN a ELSE [inf |-> 0 - a.inf, v |-> 0 - a.v]

\* a + b; inf + -inf is nan
ExtAdd(a, b) ==
    IF a.inf = 2 \/ b.inf = 2 THEN NaN
    ELSE IF a.inf = 0 /\ b.inf = 0 THEN Fin(a.v + b.v)
    ELSE IF a.inf = 0 THEN b
    ELSE IF b.inf = 0 \/ a.inf = b.inf THEN a
    ELSE NaN

\* a - b
ExtSub(a, b) == ExtAdd(a, ExtNeg(b))

\* int(s) of a string of decimal digits
RECURSIVE IntOfDigits(_)
IntOfDigits(s) ==
    IF s = <<>> THEN 0
    ELSE 10 * IntOfDigits(SubSeq(s, 1, Len(s) - 1)) + (IndexOf(DecDigits, s[Len(s)]) - 1)

Raise(e) == [kind |-> e]

Return(v) == [kind |-> "ok", value |-> v]

\* swnumber(string)
swnumber(string) ==
    IF ~FullMatch(MNumber(string, 1, FALSE), string) THEN Raise("ValueError")
    ELSE IF string[1] = "n" THEN Return(0 - IntOfDigits(Tail(string)))
    ELSE Return(IntOfDigits(string))

\* str.split('x')
RECURSIVE SplitOn(_, _, _, _)
SplitOn(s, i, c, cur) ==
    IF i > Len(s) THEN <<cur>>
    ELSE IF s[i] = c THEN <<cur>> \o SplitOn(s, i + 1, c, <<>>)
    ELSE SplitOn(s, i + 1, c, Append(cur, s[i]))

\* coordinates(sw_substring)
coordinates(sw_substring) ==
    IF ~FullMatch(MCoord(sw_substring, 1, TRUE), sw_substring) THEN Raise("ValueError")
    ELSE LET parts == SplitOn(sw_substring, 1, "x", <<>>)
         IN  IF Len(parts) # 2 THEN Raise("ValueError")
             ELSE LET first == swnumber(parts[1])
                      last == swnumber(parts[2])
                  IN  IF first.kind # "ok" THEN first
                      ELSE IF last.kind # "ok" THEN last
                      ELSE Return(<<Fin(first.value), Fin(last.value)>>)

(***************************************************************************)
(* parse (parser.py lines 380-435).  A token of a cluster is               *)
(* <<symbol, <<x, y>>>>, the anchor first.                                 *)
(***************************************************************************)
\* the body tokens inserted at the front instead of appended
BodyTokensPrepended(found) ==
    [i \in 1..Len(found) |->
        <<SubSeq(found[Len(found) + 1 - i], 1, 6),
          coordinates(SubSeq(found[Len(found) + 1 - i], 7,
                             Len(found[Len(found) + 1 - i]))).value>>]

\* lines 422-431: the body tokens, in the order of the string
RECURSIVE BodyTokens(_)
BodyTokens(found) ==
    IF found = <<>> THEN <<>>
    ELSE <<<<SubSeq(Head(found), 1, 6),
             coordinates(SubSeq(Head(found), 7, Len(Head(found)))).value>>>>
         \o BodyTokens(Tail(found))

\* the running maxima seeded with 0 instead of -inf
RunningMaxFromZero(body, k) ==
    LET F[i \in 0..Len(body)] == IF i = 0 THEN Fin(0) ELSE PyMax(F[i - 1], body[i][2][k])
    IN  F[Len(body)]

\* lines 423-429: the running maxima of the body coordinates, from -inf
RECURSIVE RunningMax(_, _)
RunningMax(body, k) ==
    IF body = <<>> THEN NegInf
    ELSE PyMax(RunningMax(SubSeq(body, 1, Len(body) - 1), k), body[Len(body)][2][k])

\* lines 432-434: the anchor token
AnchorToken(marker, extent, body) ==
    <<<<marker>>,
      IF extent # <<>> THEN coordinates(extent).value
      ELSE <<RunningMax(body, 1), RunningMax(body, 2)>>>>

\* the punctuation cluster with the anchor at the coordinate itself
PunctClusterNotNegated(punct, coord) ==
    <<<<<<"B">>, <<coord[1], coord[2]>>>>, <<punct, coord>>>>

\* lines 412-418: the punctuation cluster
PunctCluster(punct, coord) ==
    <<<<<<"B">>, <<ExtNeg(coord[1]), ExtNeg(coord[2])>>>>, <<punct, coord>>>>

\* lines 419-435: the cluster of an orientation marker, extent and body
WordCluster(marker, extent, bodytext) ==
    LET body == BodyTokens(FindAllSymCoord(bodytext, 1))
    IN  <<AnchorToken(marker, extent, body)>> \o body

\* lines 401-405: the end of group 4 in the second alternative, 0 if it does not match
WordSplit(s) ==
    LET ends == {e \in UNION {{j} \cup MPosCoord(s, j, FALSE) : j \in MMarker(s, 1, FALSE)} :
                    FullMatch(MSymCoordStar(s, e, FALSE), s)}
    IN  IF ends = {} THEN 0 ELSE Max(ends)

\* lines 398-399: the string without its group prefix
WorkingString(layout_string) ==
    Replace(layout_string, 1, <<"A">> \o Join(prefix_symbols(layout_string)))

\* lines 401-402: the first alternative, a punctuation symbol and its coordinate
IsPunctShape(sw_string) ==
    FullMatch(UNION {MCoord(sw_string, j, FALSE) : j \in MPunc(sw_string, 1, FALSE)}, sw_string)

parse(layout_string) ==
    IF layout_string = <<>> THEN Return(<<<<<<"M">>, <<Fin(0), Fin(0)>>>>>>)
    ELSE LET sw_string == WorkingString(layout_string)
         IN  IF IsPunctShape(sw_string)
             THEN Return(PunctCluster(SubSeq(sw_string, 1, 6),
                                      coordinates(SubSeq(sw_string, 7, Len(sw_string))).value))
             ELSE IF WordSplit(sw_string) = 0 THEN Raise("ValueError")
             ELSE LET e == WordSplit(sw_string)
                  IN  Return(WordCluster(sw_string[1], SubStr(sw_string, 2, e - 1),
                                         SubStr(sw_string, e, Len(sw_string))))

\* min_coordinates(cluster, min_is_zero), one component (1 for x, 2 for y)
RECURSIVE MinFoldWithAnchor(_, _, _, _)
\* the fold that does not skip the anchor token
MinFoldWithAnchor(cluster, i, k, acc) ==
    IF i > Len(cluster) THEN acc
    ELSE MinFoldWithAnchor(cluster, i + 1, k, PyMin(acc, cluster[i][2][k]))

RECURSIVE MinFold(_, _, _, _)
MinFold(cluster, i, k, acc) ==
    IF i > Len(cluster) THEN acc
    ELSE MinFold(cluster, i + 1, k, IF i = 1 THEN acc ELSE PyMin(acc, cluster[i][2][k]))

\* min_coordinates that always folds from zero, whatever min_is_zero
min_coordinates_clamped(cluster, min_is_zero) ==
    <<MinFold(cluster, 1, 1, Fin(0)), MinFold(cluster, 1, 2, Fin(0))>>

min_coordinates(cluster, min_is_zero) ==
    <<MinFold(cluster, 1, 1, IF min_is_zero THEN Fin(0) ELSE PosInf),
      MinFold(cluster, 1, 2, IF min_is_zero THEN Fin(0) ELSE PosInf)>>

(***************************************************************************)
(* Symbol ids and types (parser.py lines 246-325) and the glyph address    *)
(* (iswa_font.py lines 30-50).                                             *)
(***************************************************************************)
IsHexChar(c) == Lower(c) \in ClassHex

HexVal(c) == IndexOf(HexLower, Lower(c)) - 1

\* the value of hex digits with single underscores between them
RECURSIVE HexValue(_)
HexValue(d) ==
    IF d = <<>> THEN 0
    ELSE IF d[Len(d)] = "_" THEN HexValue(SubSeq(d, 1, Len(d) - 1))
    ELSE 16 * HexValue(SubSeq(d, 1, Len(d) - 1)) + HexVal(d[Len(d)])

HexDigitsOk(d) ==
    /\ d # <<>>
    /\ \A i \in 1..Len(d) : IsHexChar(d[i]) \/ d[i] = "_"
    /\ d[1] # "_" /\ d[Len(d)] # "_"
    /\ \A i \in 1..(Len(d) - 1) : ~(d[i] = "_" /\ d[i + 1] = "_")

RECURSIVE StripLeft(_)
StripLeft(s) == IF s # <<>> /\ Head(s) = " " THEN StripLeft(Tail(s)) ELSE s

RECURSIVE StripRight(_)
StripRight(s) ==
    IF s # <<>> /\ s[Len(s)] = " " THEN StripRight(SubSeq(s, 1, Len(s) - 1)) ELSE s

\* int(s, 16): blanks around, a sign, a 0x prefix and underscores are accepted
IntHexDigits(d, negative) ==
    IF ~HexDigitsOk(d) THEN Raise("ValueError")
    ELSE Return(IF negative THEN 0 - HexValue(d) ELSE HexValue(d))

IntHexUnsigned(u, negative) ==
    IF Len(u) >= 2 /\ u[1] = "0" /\ u[2] \in {"x", "X"}
    THEN IntHexDigits(SubStr(u, IF Len(u) >= 3 /\ u[3] = "_" THEN 4 ELSE 3, Len(u)), negative)
    ELSE IntHexDigits(u, negative)

IntHexStripped(t) ==
    IF t # <<>> /\ t[1] \in {"+", "-"} THEN IntHexUnsigned(Tail(t), t[1] = "-")
    ELSE IntHexUnsigned(t, FALSE)

PyIntHex(s) == IntHexStripped(StripRight(StripLeft(s)))

\* s[i:j] of Python, 0-based and clipped to the string
Slice(s, i, j) == SubStr(s, i + 1, IF j < Len(s) THEN j ELSE Len(s))

\* symbol_id(symbol), symbol a string
symbol_id(symbol) ==
    IF symbol # <<>> /\ symbol[1] = "S" THEN PyIntHex(Slice(symbol, 1, 4))
    ELSE PyIntHex(Slice(symbol, 0, 3))

\* symbol_ranges with the movement range starting one id early, inside the hand range
symbol_ranges_overlap ==
    <<[type |-> "iswa", lower |-> 256, upper |-> 907],
      [type |-> "writing", lower |-> 256, upper |-> 894],
      [type |-> "hand", lower |-> 256, upper |-> 516],
      [type |-> "movement", lower |-> 516, upper |-> 758],
      [type |-> "dynamics", lower |-> 759, upper |-> 766],
      [type |-> "head", lower |-> 767, upper |-> 876],
      [type |-> "trunk", lower |-> 877, upper |-> 885],
      [type |-> "limb", lower |-> 886, upper |-> 894],
      [type |-> "location", lower |-> 895, upper |-> 902],
      [type |-> "punctuation", lower |-> 903, upper |-> 907]>>

\* the dict symbol_ranges, in its order
symbol_ranges ==
    <<[type |-> "iswa", lower |-> 256, upper |-> 907],
      [type |-> "writing", lower |-> 256, upper |-> 894],
      [type |-> "hand", lower |-> 256, upper |-> 516],
      [type |-> "movement", lower |-> 517, upper |-> 758],
      [type |-> "dynamics", lower |-> 759, upper |-> 766],
      [type |-> "head", lower |-> 767, upper |-> 876],
      [type |-> "trunk", lower |-> 877, upper |-> 885],
      [type |-> "limb", lower |-> 886, upper |-> 894],
      [type |-> "location", lower |-> 895, upper |-> 902],
      [type |-> "punctuation", lower |-> 903, upper |-> 907]>>

\* is_type(symbol, type), symbol an integer id (symbol_id raises AttributeError, passed)
is_type(symbol, type) ==
    IF \E i \in DOMAIN symbol_ranges : symbol_ranges[i].type = type
    THEN LET r == symbol_ranges[CHOOSE i \in DOMAIN symbol_ranges : symbol_ranges[i].type = type]
         IN  Return(r.lower <= symbol /\ symbol <= r.upper)
    ELSE Raise("ValueError")

\* lines 319-325: the first range of symbol_ranges, after iswa and writing, that holds the id
RECURSIVE TypeFrom(_, _)
TypeFrom(symbol, i) ==
    IF i > Len(symbol_ranges) THEN Raise("ValueError")
    ELSE IF symbol_ranges[i].type = "iswa" \/ symbol_ranges[i].type = "writing"
         THEN TypeFrom(symbol, i + 1)
    ELSE IF symbol_ranges[i].lower <= symbol /\ symbol <= symbol_ranges[i].upper
         THEN Return(symbol_ranges[i].type)
    ELSE TypeFrom(symbol, i + 1)

\* symbol_type without the skip of iswa and writing: the first range that holds the id
symbol_type_no_skip(symbol) ==
    IF \E i \in DOMAIN symbol_ranges :
           symbol_ranges[i].lower <= symbol /\ symbol <= symbol_ranges[i].upper
    THEN Return(symbol_ranges[CHOOSE i \in DOMAIN symbol_ranges :
                    /\ symbol_ranges[i].lower <= symbol /\ symbol <= symbol_ranges[i].upper
                    /\ \A j \in 1..(i - 1) :
                          ~(symbol_ranges[j].lower <= symbol /\ symbol <= symbol_ranges[j].upper)].type)
    ELSE Raise("ValueError")

\* symbol_type(symbol), symbol an integer id
symbol_type(symbol) == TypeFrom(symbol, 1)

\* symbol_type of what symbol_id returned or raised
TypeOfId(id) == IF id.kind # "ok" THEN id ELSE symbol_type(id.value)

\* symbol_type(symbol_id(key)), and symbol_type(key) of a string
symbol_type_of_key(key) == TypeOfId(symbol_id(key))

\* the address with 16 sub-indices per category instead of 96
AddressStride16(hi, lo) ==
    IF hi.kind # "ok" THEN hi
    ELSE IF lo.kind # "ok" THEN lo
    ELSE Return(1 + ((hi.value - 256) * 16 + lo.value))

\* lines 48-50: the address of the category hi and the sub-index lo
Address(hi, lo) ==
    IF hi.kind # "ok" THEN hi
    ELSE IF lo.kind # "ok" THEN lo
    ELSE Return(1 + ((hi.value - 256) * 96 + lo.value))

\* lines 48-50, the key without its S
CodeOfKey(key) == Address(PyIntHex(Slice(key, 0, 3)), PyIntHex(Slice(key, 3, 5)))

\* ISWAFont.code(symbol_key)
code(symbol_key) ==
    CodeOfKey(IF symbol_key # <<>> /\ symbol_key[1] = "S" THEN Tail(symbol_key) ELSE symbol_key)

(***************************************************************************)
(* The callers' inputs: KSW strings written from a marker, an extent and   *)
(* (symbol, coordinate) pairs drawn from small sets.                       *)
(***************************************************************************)
MaxBody == 2

MaxPrefix == 2

Markers == {"B", "L", "M", "R"}

SymbolSample == {<<"S", "1", "8", "7", "0", "a">>, <<"S", "2", "0", "5", "0", "0">>}

PunctSample == {<<"S", "3", "8", "8", "0", "0">>, <<"S", "3", "8", "b", "5", "f">>}

CoordSample == {<<0 - 11, 15>>, <<0 - 18, 0 - 10>>, <<8, 0 - 4>>, <<0, 0 - 32>>, <<36, 4>>}

\* an extent <<x, y, z>> is written with z leading zeros
ExtentSample == {<<18, 33, 0>>, <<5, 5, 0>>, <<92, 108, 2>>}

TokenSample == {[sym |-> k, x |-> c[1], y |-> c[2]] : k \in SymbolSample, c \in CoordSample}

BodiesUpTo(n) == UNION {[1..k -> TokenSample] : k \in 0..n}

PrefixSample == UNION {[1..k -> SymbolSample \cup PunctSample] : k \in 1..MaxPrefix}

RECURSIVE FormatNat(_)
FormatNat(n) ==
    IF n < 10 THEN <<DecDigits[n + 1]>> ELSE FormatNat(n \div 10) \o <<DecDigits[(n % 10) + 1]>>

FormatNum(n) == IF n < 0 THEN <<"n">> \o FormatNat(0 - n) ELSE FormatNat(n)

FormatCoord(x, y) == FormatNum(x) \o <<"x">> \o FormatNum(y)

Zeros(z) == [i \in 1..z |-> "0"]

FormatExtent(e) ==
    IF e = <<>> THEN <<>>
    ELSE Zeros(e[3]) \o FormatNat(e[1]) \o <<"x">> \o Zeros(e[3]) \o FormatNat(e[2])

RECURSIVE FormatBody(_)
FormatBody(b) ==
    IF b = <<>> THEN <<>>
    ELSE Head(b).sym \o FormatCoord(Head(b).x, Head(b).y) \o FormatBody(Tail(b))

FormatPrefix(p) == IF p = <<>> THEN <<>> ELSE <<"A">> \o Join(p)

\* the written form of a cluster: prefix, marker, extent, body
FormatWord(p, m, e, b) == FormatPrefix(p) \o <<m>> \o FormatExtent(e) \o FormatBody(b)

Input(shape, text, p, m, e, b) ==
    [shape |-> shape, text |-> text, prefix |-> p, marker |-> m, extent |-> e, body |-> b]

WordInput(shape, p, m, e, b) == Input(shape, FormatWord(p, m, e, b), p, m, e, b)

MapChars(s, f(_)) == [i \in 1..Len(s) |-> f(s[i])]

LowerFirst(s) == [i \in 1..Len(s) |-> IF i = 1 THEN Lower(s[i]) ELSE s[i]]

\* spellings of a layout-annotated token in other letter cases, and with trailing text
Variants(t) ==
    {MapChars(t, Upper), MapChars(t, Lower), LowerFirst(t),
     t \o <<"z">>, t \o <<"x">>, t \o <<" ">>, t \o <<" ", "M">>}

(***************************************************************************)
(* Calls of parse.                                                         *)
(***************************************************************************)
Idle == pc = "idle"

\* the state after a call of f with input a that returned or raised r
Returned(f, a, r) == [pc |-> "returned", op |-> f, arg |-> a, ret |-> r]

Becomes(st) == pc' = st.pc /\ op' = st.op /\ arg' = st.arg /\ ret' = st.ret

CallParseEmpty ==
    /\ Idle
    /\ Becomes(Returned("parse", Input("empty", <<>>, <<>>, "", <<>>, <<>>), parse(<<>>)))
    /\ UNCHANGED frame

CallParseRaw ==
    /\ Idle
    /\ \E m \in Markers, b \in BodiesUpTo(MaxBody) :
          LET a == WordInput("raw", <<>>, m, <<>>, b)
          IN  Becomes(Returned("parse", a, parse(a.text)))
    /\ UNCHANGED frame

CallParseLayout ==
    /\ Idle
    /\ \E m \in Markers, e \in ExtentSample, b \in BodiesUpTo(MaxBody) :
          LET a == WordInput("layout", <<>>, m, e, b)
          IN  Becomes(Returned("parse", a, parse(a.text)))
    /\ UNCHANGED frame

CallParsePunct ==
    /\ Idle
    /\ \E k \in PunctSample, c \in CoordSample \cup {<<0 - 36, 0 - 4>>, <<0, 0>>} :
          LET b == <<[sym |-> k, x |-> c[1], y |-> c[2]]>>
          IN  Becomes(Returned("parse", Input("punct", FormatBody(b), <<>>, "", <<>>, b),
                               parse(FormatBody(b))))
    /\ UNCHANGED frame

CallParsePrefixed ==
    /\ Idle
    /\ \E p \in PrefixSample, m \in Markers, e \in ExtentSample \cup {<<>>}, b \in BodiesUpTo(1) :
          LET a == WordInput("prefixed", p, m, e, b)
          IN  Becomes(Returned("parse", a, parse(a.text)))
    /\ UNCHANGED frame

CallParseVariant ==
    /\ Idle
    /\ \E p \in {<<>>} \cup {<<k>> : k \in SymbolSample}, m \in Markers,
          e \in ExtentSample, b \in BodiesUpTo(1) :
          \E t \in Variants(FormatWord(p, m, e, b)) :
              Becomes(Returned("parse", Input("variant", t, <<>>, "", <<>>, <<>>), parse(t)))
    /\ UNCHANGED frame

\* the caller takes the result
Done ==
    /\ pc = "returned"
    /\ pc' = "idle"
    /\ op' = ""
    /\ arg' = <<>>
    /\ ret' = <<>>
    /\ frame' = <<>>

Init == pc = "idle" /\ op = "" /\ arg = <<>> /\ ret = <<>> /\ frame = <<>>

Next ==
    \/ CallParseEmpty
    \/ CallParseRaw
    \/ CallParseLayout
    \/ CallParsePunct
    \/ CallParsePrefixed
    \/ CallParseVariant
    \/ Done

Spec == Init /\ [][Next]_vars

(***************************************************************************)
(* Claims about parse.                                                     *)
(***************************************************************************)
SetMax(S) == CHOOSE m \in S : \A n \in S : n <= m

ParseReturned == pc = "returned" /\ op = "parse"

\* the body tokens the caller wrote, as parse is to return them
WrittenTokens(b) == [i \in 1..Len(b) |-> <<b[i].sym, <<Fin(b[i].x), Fin(b[i].y)>>>>]

\* C1: a string of a marker and one or more (symbol, coordinate) pairs, with no extent,
\* parses to a cluster whose anchor coordinate is the component-wise maximum of the
\* coordinates of the body tokens.
C1_RawAnchorIsBodyMax ==
    (ParseReturned /\ arg.shape = "raw" /\ Len(arg.body) >= 1) =>
        /\ ret.kind = "ok"
        /\ Len(ret.value) = Len(arg.body) + 1
        /\ \A i \in 1..Len(arg.body) : ret.value[i + 1] = WrittenTokens(arg.body)[i]
        /\ ret.value[1] =
              <<<<arg.marker>>,
                <<Fin(SetMax({arg.body[i].x : i \in 1..Len(arg.body)})),
                  Fin(SetMax({arg.body[i].y : i \in 1..Len(arg.body)}))>>>>

\* the maxima come from two different body tokens, all x negative or zero
C1_Witness ==
    /\ ParseReturned /\ arg.shape = "raw" /\ Len(arg.body) = 2
    /\ arg.body[1].x = 0 - 18 /\ arg.body[2].x = 0 /\ arg.body[1].y > arg.body[2].y
    /\ ret.kind = "ok"
    /\ ret.value[1] = <<<<"M">>, <<Fin(0), Fin(0 - 10)>>>>

\* C2: with no body token and no explicit extent the anchor coordinate is (0, 0), for the
\* empty string and for a bare orientation marker, with or without a group prefix.
C2_NoBodyAnchorIsZero ==
    (/\ ParseReturned
     /\ arg.shape \in {"empty", "raw", "prefixed"}
     /\ arg.body = <<>> /\ arg.extent = <<>>) =>
        (ret.kind = "ok" /\ ret.value[1][2] = <<Fin(0), Fin(0)>>)

\* C3: a punctuation symbol followed by a signed coordinate (x, y) parses to exactly two
\* tokens, the anchor ('B', (-x, -y)) and the punctuation symbol at (x, y).
C3_PunctCluster ==
    (ParseReturned /\ arg.shape = "punct") =>
        /\ ret.kind = "ok"
        /\ ret.value = <<<<<<"B">>, <<Fin(0 - arg.body[1].x), Fin(0 - arg.body[1].y)>>>>,
                         <<arg.body[1].sym, <<Fin(arg.body[1].x), Fin(arg.body[1].y)>>>>>>

\* parse('S38800n36xn4')
C3_Witness ==
    /\ ParseReturned /\ arg.shape = "punct"
    /\ arg.text = <<"S", "3", "8", "8", "0", "0", "n", "3", "6", "x", "n", "4">>
    /\ ret = Return(<<<<<<"B">>, <<Fin(36), Fin(4)>>>>,
                      <<<<"S", "3", "8", "8", "0", "0">>, <<Fin(0 - 36), Fin(0 - 4)>>>>>>)

\* C4: a marker, an explicit extent and n (symbol, coordinate) pairs parse to n + 1
\* tokens: the anchor (marker, extent) whatever the body coordinates, then the n body
\* tokens in the order of the string, each with its own symbol and coordinate.
C4_LayoutClusterInOrder ==
    (ParseReturned /\ arg.shape = "layout") =>
        /\ ret.kind = "ok"
        /\ ret.value = <<<<<<arg.marker>>, <<Fin(arg.extent[1]), Fin(arg.extent[2])>>>>>>
                       \o WrittenTokens(arg.body)

\* the same symbol twice, at coordinates beyond the extent, the larger one first
C4_Witness ==
    /\ ParseReturned /\ arg.shape = "layout" /\ Len(arg.body) = 2
    /\ arg.body[1].sym = arg.body[2].sym
    /\ arg.body[1].x = 36 /\ arg.body[2].x = 8
    /\ arg.extent = <<5, 5, 0>>
    /\ ret.kind = "ok" /\ Len(ret.value) = 3
    /\ ret.value[2][2] = <<Fin(36), Fin(4)>> /\ ret.value[3][2] = <<Fin(8), Fin(0 - 4)>>

\* lines 401-405: the working string has one of the two shapes of parse
HasParseShape(sw_string) == IsPunctShape(sw_string) \/ WordSplit(sw_string) # 0

\* C9: parse produces a cluster, and raises nothing, for every single token that
\* is_layouted accepts; it raises ValueError only for strings of neither shape.
C9_LayoutedTokensParse ==
    ParseReturned =>
        /\ (Len(Split(arg.text)) = 1 /\ Split(arg.text)[1] = arg.text /\ is_layouted(arg.text))
              => ret.kind = "ok"
        /\ ret.kind = "ValueError" => ~HasParseShape(WorkingString(arg.text))

(***************************************************************************)
(* Calls of the symbol model and of the glyph address.  A symbol key is    *)
(* written from its category (the three-digit id) and its sub-index (the   *)
(* last two digits).                                                       *)
(***************************************************************************)
MaxId == 1100

MaxCatOffset == 1

FirstCat == 256

LastCat == 907

LastSub == 95

LastKeyCat == 1023

RECURSIVE FormatHex(_, _)
FormatHex(n, width) ==
    IF width = 0 THEN <<>> ELSE FormatHex(n \div 16, width - 1) \o <<HexLower[(n % 16) + 1]>>

\* the key of (cat, sub): with or without the leading S, digits in lower or upper case
KeyText(cat, sub, marked, upper) ==
    (IF marked THEN <<"S">> ELSE <<>>)
    \o (IF upper THEN MapChars(FormatHex(cat, 3) \o FormatHex(sub, 2), Upper)
        ELSE FormatHex(cat, 3) \o FormatHex(sub, 2))

KeyInput(cat, sub, marked, upper) ==
    [text |-> KeyText(cat, sub, marked, upper), cat |-> cat, sub |-> sub]

\* the categories of the pairs of keys: the first and the last ones of the font
PairCats == (FirstCat..(FirstCat + MaxCatOffset)) \cup ((LastCat - MaxCatOffset)..LastCat)

TypeNames == {symbol_ranges[i].type : i \in DOMAIN symbol_ranges} \cup {"glyph"}

\* ISWAFont.code(key), for every key of the font
CallCode ==
    /\ Idle
    /\ \E cat \in FirstCat..LastCat, sub \in 0..LastSub, marked \in BOOLEAN :
          LET a == KeyInput(cat, sub, marked, FALSE)
          IN  Becomes(Returned("code", a, code(a.text)))
    /\ UNCHANGED frame

\* two lookups: ISWAFont.code of one key and of another
CallCodeTwice ==
    /\ Idle
    /\ \E c1 \in PairCats, s1 \in 0..LastSub, c2 \in PairCats, s2 \in 0..LastSub,
          marked \in BOOLEAN :
          LET a == <<KeyInput(c1, s1, marked, FALSE), KeyInput(c2, s2, TRUE, FALSE)>>
          IN  Becomes(Returned("code2", a, <<code(a[1].text), code(a[2].text)>>))
    /\ UNCHANGED frame

\* symbol_type(symbol_id(key)), for every key that SYMBOL_BLOCK matches
CallSymbolTypeOfKey ==
    /\ Idle
    /\ \E cat \in FirstCat..LastKeyCat, sub \in {0, 10, LastSub},
          marked \in BOOLEAN, upper \in BOOLEAN :
          LET a == KeyInput(cat, sub, marked, upper)
          IN  Becomes(Returned("symbol_type_of_key", a, symbol_type_of_key(a.text)))
    /\ UNCHANGED frame

\* symbol_type(id), and is_type(id, type) for every type, of an integer id
CallClassify ==
    /\ Idle
    /\ \E id \in 0..MaxId :
          Becomes(Returned("classify", id,
                           [type |-> symbol_type(id),
                            member |-> [t \in TypeNames |-> is_type(id, t)]]))
    /\ UNCHANGED frame

NextCode ==
    \/ CallCode
    \/ CallCodeTwice
    \/ Done

SpecCode == Init /\ [][NextCode]_vars

NextSymbol ==
    \/ CallSymbolTypeOfKey
    \/ CallClassify
    \/ Done

SpecSymbol == Init /\ [][NextSymbol]_vars

(***************************************************************************)
(* Claims about the glyph address and the symbol types.                    *)
(***************************************************************************)
EightTypes ==
    {"hand", "movement", "dynamics", "head", "trunk", "limb", "location", "punctuation"}

\* C5: code(key) is 1 + (hex3(key[0:3]) - 0x100) * 96 + hex2(key[3:5]) after an optional
\* leading S, and two distinct keys of the font (category 0x100..0x38b, sub-index
\* 0x00..0x5f) have distinct addresses; code('10000') = 1, code('S10001') = 2,
\* code('S1000f') = 16, code('S10100') = 97.
C5_CodeInjective ==
    /\ (pc = "returned" /\ op = "code") =>
          /\ ret = Return(1 + (arg.cat - 256) * 96 + arg.sub)
          /\ ret.value >= 1 /\ ret.value <= 652 * 96
          /\ arg.text = <<"1", "0", "0", "0", "0">> => ret = Return(1)
          /\ arg.text = <<"S", "1", "0", "0", "0", "1">> => ret = Return(2)
          /\ arg.text = <<"S", "1", "0", "0", "0", "f">> => ret = Return(16)
          /\ arg.text = <<"S", "1", "0", "1", "0", "0">> => ret = Return(97)
    /\ (pc = "returned" /\ op = "code2") =>
          /\ ret[1].kind = "ok" /\ ret[2].kind = "ok"
          /\ (ret[1].value = ret[2].value) <=>
                 (arg[1].cat = arg[2].cat /\ arg[1].sub = arg[2].sub)

\* code('S1000f') = 16 and code('S10100') = 97 in one pair of lookups
C5_Witness ==
    /\ pc = "returned" /\ op = "code2"
    /\ arg[1].text = <<"1", "0", "0", "0", "f">>
    /\ arg[2].text = <<"S", "1", "0", "1", "0", "0">>
    /\ ret = <<Return(16), Return(97)>>

TypeOfKeyReturned == pc = "returned" /\ op = "symbol_type_of_key"

\* C6 as stated: for every key that SYMBOL_BLOCK matches, symbol_type(symbol_id(key)) is
\* defined and is one of the eight categories.
C6_EveryKeyHasType ==
    TypeOfKeyReturned => (ret.kind = "ok" /\ ret.value \in EightTypes)

\* C6 amended: for every key whose id is in 0x100..0x38b, symbol_type(symbol_id(key)) is
\* defined and is one of the eight categories; for the keys that SYMBOL_BLOCK matches with
\* an id in 0x38c..0x3ff it raises ValueError.
C6_KeysOfTheFontHaveType ==
    TypeOfKeyReturned =>
        IF arg.cat <= 907 THEN ret.kind = "ok" /\ ret.value \in EightTypes
        ELSE ret = Raise("ValueError")

\* symbol_type(symbol_id('S38B5F')) is punctuation
C6_Witness ==
    /\ TypeOfKeyReturned
    /\ arg.text = <<"S", "3", "8", "B", "5", "F">>
    /\ ret = Return("punctuation")

\* C7: the eight category ranges are pairwise disjoint and their union is the interval
\* 0x100..0x38b: an id in the interval is of exactly one of the eight types, which is
\* symbol_type(id), and an id outside it is of none.
C7_RangesPartition ==
    (pc = "returned" /\ op = "classify") =>
        LET types == {t \in EightTypes : ret.member[t] = Return(TRUE)}
        IN  /\ \A t \in EightTypes : ret.member[t].kind = "ok"
            /\ IF 256 <= arg /\ arg <= 907
               THEN ret.type.kind = "ok" /\ types = {ret.type.value}
               ELSE types = {} /\ ret.type = Raise("ValueError")

\* the first movement id, 0x205, just after the last hand id
C7_Witness ==
    /\ pc = "returned" /\ op = "classify" /\ arg = 517
    /\ ret.type = Return("movement")
    /\ ret.member["movement"] = Return(TRUE) /\ ret.member["hand"] = Return(FALSE)
    /\ ret.member["iswa"] = Return(TRUE) /\ ret.member["glyph"] = Raise("ValueError")


(***************************************************************************)
(* The recognizers of the dialects (parser.py lines 50-171) on one text.   *)
(***************************************************************************)
SizeSample == {<<10, 10>>, <<30, 21>>}

\* a body in the size-expanded dialect: symbol, size, 'x', coordinate
RECURSIVE FormatSizedBody(_, _)
FormatSizedBody(b, size) ==
    IF b = <<>> THEN <<>>
    ELSE Head(b).sym \o FormatNat(size[1]) \o <<"x">> \o FormatNat(size[2]) \o <<"x">>
         \o FormatCoord(Head(b).x, Head(b).y) \o FormatSizedBody(Tail(b), size)

ShortPrefixes == {<<>>} \cup {<<k>> : k \in SymbolSample \cup PunctSample}

\* one token of each dialect, with and without a group prefix
DialectTokens ==
    UNION {{FormatWord(p, m, <<>>, b),
            FormatWord(p, m, <<18, 33, 0>>, b),
            FormatPrefix(p) \o <<m>> \o FormatSizedBody(b, <<10, 10>>),
            FormatPrefix(p) \o <<m>> \o FormatSizedBody(b, <<30, 21>>)} :
           p \in ShortPrefixes, m \in Markers, b \in BodiesUpTo(1)}
    \cup UNION {{k, k \o FormatNat(z[1]) \o <<"x">> \o FormatNat(z[2]),
                 k \o FormatCoord(0 - 36, 0 - 4), <<"A">> \o k} :
                k \in PunctSample, z \in SizeSample}

SecondTokens ==
    {<<"M">>, <<"S", "3", "8", "8", "0", "0">>,
     <<"M", "S", "1", "8", "7", "0", "a", "n", "1", "1", "x", "1", "5">>,
     <<"M", "S", "1", "8", "7", "0", "a", "1", "0", "x", "1", "0", "x", "n", "1", "1", "x", "1", "5">>}

DialectTexts ==
    DialectTokens
    \cup {t \o <<" ">> \o u : t \in DialectTokens, u \in SecondTokens}
    \cup {<<>>, <<" ">>}

\* is_raw(text), is_expanded(text) and is_layouted(text) of one text
CallDialects ==
    /\ Idle
    /\ \E t \in DialectTexts :
          Becomes(Returned("dialects", t,
                           [is_raw |-> is_raw(t), is_expanded |-> is_expanded(t),
                            is_layouted |-> is_layouted(t)]))
    /\ UNCHANGED frame

NextGrammar ==
    \/ CallDialects
    \/ Done

SpecGrammar == Init /\ [][NextGrammar]_vars

\* C8 as stated: a string with at least one symbol is never both raw and size-expanded,
\* also when its only symbols are in the group prefix.
C8_RawExcludesExpanded ==
    (pc = "returned" /\ op = "dialects" /\ FindAllSymbols(arg, 1) # <<>>) =>
        ~(ret.is_raw /\ ret.is_expanded)

\* the symbols of a token after its group prefix
SymbolsAfterPrefix(t) ==
    FindAllSymbols(SubStr(t, Max(MOptPrefix(t, 1, TRUE)), Len(t)), 1)

\* C8 amended: a string with at least one symbol outside a group prefix (a symbol of a
\* body, or a punctuation symbol) is never both raw and size-expanded.
C8_BodySymbolExcludesBoth ==
    (/\ pc = "returned" /\ op = "dialects"
     /\ \E i \in 1..Len(Split(arg)) : SymbolsAfterPrefix(Split(arg)[i]) # <<>>) =>
        ~(ret.is_raw /\ ret.is_expanded)

\* a prefixed raw word followed by a bare marker: raw, not size-expanded
C8_Witness ==
    /\ pc = "returned" /\ op = "dialects"
    /\ arg = <<"A", "S", "2", "0", "5", "0", "0", "M",
               "S", "1", "8", "7", "0", "a", "n", "1", "1", "x", "1", "5", " ", "M">>
    /\ ret.is_raw /\ ~ret.is_expanded


(***************************************************************************)
(* glyphogram (compose.py lines 26-102), in the steps of its body.  The    *)
(* font is the set of the symbol keys its glyph store holds; frame holds   *)
(* the local variables between the steps.                                  *)
(***************************************************************************)
MaxGlyphBody == 2

\* symbol_group_color (compose.py lines 15-23)
symbol_group_color(group) ==
    CASE group = "hand" -> "#0000ff"
      [] group = "movement" -> "#ff0000"
      [] group = "dynamics" -> "#ff00ff"
      [] group = "head" -> "#00ff00"
      [] group = "trunk" -> "#000000"
      [] group = "limb" -> "#000000"
      [] group = "location" -> "#ddaa00"
      [] group = "punctuation" -> "#ff5500"

\* font.glyph(key, line, fill): the glyph of the key in the colours, or glyph-not-found
FontGlyph(font, key, line, fill) ==
    IF key \in font.glyphs THEN Return([key |-> key, line |-> line, fill |-> fill])
    ELSE Raise("GlyphNotFound")

\* the centering block that always keeps x_max
CenterOnMax(bound, x_min, x_max) ==
    IF bound = "c" \/ bound = "h" THEN <<ExtNeg(x_max), x_max>> ELSE <<x_min, x_max>>

\* the centering block with x_min -= x_max for x_min = -x_max
CenterSubtract(bound, x_min, x_max) ==
    IF bound = "c" \/ bound = "h"
    THEN IF ExtLess(x_max, ExtNeg(x_min)) THEN <<x_min, ExtNeg(x_min)>>
         ELSE <<ExtSub(x_min, x_max), x_max>>
    ELSE <<x_min, x_max>>

\* lines 50-54 (and again 55-59): the centering block
Center(bound, x_min, x_max) ==
    IF bound = "c" \/ bound = "h"
    THEN IF ExtLess(x_max, ExtNeg(x_min)) THEN <<x_min, ExtNeg(x_min)>>
         ELSE <<ExtNeg(x_max), x_max>>
    ELSE <<x_min, x_max>>

\* '{x:d}'.format(x=v): an integer only
FormatD(v) == IF v.inf = 0 THEN Return(v.v) ELSE Raise("ValueError")

\* lines 73-75: the line colour of a token, line the colour so far
ColourOf(group) ==
    IF group.kind # "ok" THEN group ELSE Return(symbol_group_color(group.value))

TokenColour(a, symbol, line) ==
    IF a.colorize THEN ColourOf(symbol_type_of_key(symbol)) ELSE Return(line)

\* lines 76-82: the image of a token from its glyph and its translation
Image(core, tx, ty) ==
    IF core.kind # "ok" THEN core
    ELSE IF tx.kind # "ok" THEN tx
    ELSE IF ty.kind # "ok" THEN ty
    ELSE Return([x |-> tx.value, y |-> ty.value, core |-> core.value])

\* the image placed at the token's own coordinate, the minima not subtracted
PlaceTokenUnshifted(f, a, token, colour) ==
    IF colour.kind # "ok" THEN colour
    ELSE Image(FontGlyph(a.font, Slice(token[1], 1, 6), colour.value, a.fill),
               FormatD(token[2][1]), FormatD(token[2][2]))

PlaceToken(f, a, token, colour) ==
    IF colour.kind # "ok" THEN colour
    ELSE Image(FontGlyph(a.font, Slice(token[1], 1, 6), colour.value, a.fill),
               FormatD(ExtSub(token[2][1], f.x_min)),
               FormatD(ExtSub(token[2][2], f.y_min)))

\* lines 69-82: the images of the body tokens from token i on, line the colour so far
RECURSIVE PlaceFrom(_, _, _, _, _)
\* the loop that leaves out a token whose image failed and goes on
PlaceNextSkipFailed(f, a, i, colour, image, images) ==
    IF image.kind # "ok" THEN PlaceFrom(f, a, i + 1, f.layout[i][1], images)
    ELSE PlaceFrom(f, a, i + 1, colour.value, Append(images, image.value))

PlaceNext(f, a, i, colour, image, images) ==
    IF image.kind # "ok" THEN image
    ELSE PlaceFrom(f, a, i + 1, colour.value, Append(images, image.value))

PlaceColoured(f, a, i, colour, images) ==
    PlaceNext(f, a, i, colour, PlaceToken(f, a, f.layout[i], colour), images)

PlaceFrom(f, a, i, line, images) ==
    IF i > Len(f.layout) THEN Return(images)
    ELSE PlaceColoured(f, a, i, TokenColour(a, f.layout[i][1], line), images)

GlyphSymbols == {<<"S", "1", "8", "7", "0", "a">>, <<"S", "3", "8", "8", "0", "0">>}

GlyphCoords == {<<0 - 18, 0 - 10>>, <<8, 0 - 4>>, <<36, 4>>}

GlyphTokens == {[sym |-> k, x |-> c[1], y |-> c[2]] : k \in GlyphSymbols, c \in GlyphCoords}

GlyphBodies == UNION {[1..k -> GlyphTokens] : k \in 0..MaxGlyphBody}

\* the KSW strings given to glyphogram: words with and without extent, punctuation,
\* the empty string and a string parse rejects
GlyphStrings ==
    {WordInput(IF e = <<>> THEN "raw" ELSE "layout", <<>>, "M", e, b) :
        e \in {<<>>, <<18, 33, 0>>, <<40, 69, 0>>}, b \in GlyphBodies}
    \cup {Input("punct", FormatBody(<<t>>), <<>>, "", <<>>, <<t>>) :
             t \in {[sym |-> <<"S", "3", "8", "8", "0", "0">>, x |-> c[1], y |-> c[2]] :
                       c \in GlyphCoords}}
    \cup {Input("empty", <<>>, <<>>, "", <<>>, <<>>),
          Input("variant", <<"m", "1", "8", "x", "3", "3">>, <<>>, "", <<>>, <<>>)}

\* the fonts: one with every glyph, one that lacks the glyph of 3880 0
Fonts ==
    {[name |-> "font_svg1", glyphs |-> {Tail(k) : k \in GlyphSymbols}],
     [name |-> "font_svg1", glyphs |-> {<<"1", "8", "7", "0", "a">>}]}

\* lines 45-47: parse the string, take the maxima from the anchor and the minima of the body
CallGlyphogram ==
    /\ Idle
    /\ \E k \in GlyphStrings, pad \in {0, 1}, bound \in {"None", "c", "h", "v"},
          colorize \in BOOLEAN, font \in Fonts :
          LET a == [ksw_string |-> k, pad |-> pad, bound |-> bound, line |-> "#000000",
                    fill |-> "#ffffff", colorize |-> colorize, font |-> font]
              layout == parse(k.text)
          IN  /\ op' = "glyphogram"
              /\ arg' = a
              /\ IF layout.kind # "ok"
                 THEN pc' = "returned" /\ ret' = layout /\ frame' = <<>>
                 ELSE /\ pc' = "center"
                      /\ ret' = <<>>
                      /\ frame' = [layout |-> layout.value,
                                   x_max |-> layout.value[1][2][1],
                                   y_max |-> layout.value[1][2][2],
                                   x_min |-> min_coordinates(layout.value, FALSE)[1],
                                   y_min |-> min_coordinates(layout.value, FALSE)[2]]

\* lines 49-59: crudely center the image, the block twice
GlyphCenter ==
    /\ pc = "center"
    /\ LET once == Center(arg.bound, frame.x_min, frame.x_max)
           twice == Center(arg.bound, once[1], once[2])
       IN  frame' = [frame EXCEPT !.x_min = twice[1], !.x_max = twice[2]]
    /\ pc' = "pad"
    /\ UNCHANGED <<op, arg, ret>>

\* lines 61-65: pad with whitespace
GlyphPad ==
    /\ pc = "pad"
    /\ frame' = [frame EXCEPT !.x_max = ExtAdd(@, Fin(arg.pad)),
                              !.x_min = ExtSub(@, Fin(arg.pad)),
                              !.y_max = ExtAdd(@, Fin(arg.pad)),
                              !.y_min = ExtSub(@, Fin(arg.pad))]
    /\ pc' = "place"
    /\ UNCHANGED <<op, arg, ret>>

\* lines 67-82: load the images and put them in their places
GlyphPlace ==
    /\ pc = "place"
    /\ LET images == PlaceFrom(frame, arg, 2, arg.line, <<>>)
       IN  IF images.kind # "ok"
           THEN pc' = "returned" /\ ret' = images /\ frame' = <<>>
           ELSE pc' = "emit" /\ ret' = <<>> /\ frame' = [frame EXCEPT !.layout = images.value]
    /\ UNCHANGED <<op, arg>>

\* lines 84-102: insert into a single SVG canvas and return it
GlyphEmit ==
    /\ pc = "emit"
    /\ ret' = Return([font |-> arg.font.name,
                      width |-> ExtSub(frame.x_max, frame.x_min),
                      height |-> ExtSub(frame.y_max, frame.y_min),
                      ksw_string |-> arg.ksw_string.text,
                      image |-> frame.layout])
    /\ frame' = <<>>
    /\ pc' = "returned"
    /\ UNCHANGED <<op, arg>>

NextCompose ==
    \/ CallGlyphogram
    \/ GlyphCenter
    \/ GlyphPad
    \/ GlyphPlace
    \/ GlyphEmit
    \/ Done

SpecCompose == Init /\ [][NextCompose]_vars

(***************************************************************************)
(* Claims about glyphogram.                                                *)
(***************************************************************************)
\* |a|
ExtAbs(a) == IF ExtLess(a, Fin(0)) THEN ExtNeg(a) ELSE a

\* C10 as stated: with bound 'c' or 'h' the horizontal bounds before padding are x_min = -m and
\* x_max = +m, where m = max(|x_min|, x_max) of the unclamped minimum body x and the
\* anchor x; with any other bound they are unchanged; y_min and y_max never change.
C10_SymmetricBounds ==
    (pc = "pad" /\ op = "glyphogram") =>
        LET x_min == min_coordinates(frame.layout, FALSE)[1]
            y_min == min_coordinates(frame.layout, FALSE)[2]
            x_max == frame.layout[1][2][1]
            y_max == frame.layout[1][2][2]
            m == IF ExtLess(ExtAbs(x_min), x_max) THEN x_max ELSE ExtAbs(x_min)
        IN  /\ frame.y_min = y_min /\ frame.y_max = y_max
            /\ IF arg.bound \in {"c", "h"}
               THEN frame.x_min = ExtNeg(m) /\ frame.x_max = m
               ELSE frame.x_min = x_min /\ frame.x_max = x_max


\* C10 amended: with bound 'c' or 'h' the horizontal bounds before padding are x_min = -m
\* and x_max = +m, where m = max(-x_min, x_max) of the unclamped minimum body x and the
\* anchor x; with any other bound they are unchanged; y_min and y_max never change.
C10_SymmetricBoundsSigned ==
    (pc = "pad" /\ op = "glyphogram") =>
        LET x_min == min_coordinates(frame.layout, FALSE)[1]
            y_min == min_coordinates(frame.layout, FALSE)[2]
            x_max == frame.layout[1][2][1]
            y_max == frame.layout[1][2][2]
            m == IF ExtLess(ExtNeg(x_min), x_max) THEN x_max ELSE ExtNeg(x_min)
        IN  /\ frame.y_min = y_min /\ frame.y_max = y_max
            /\ IF arg.bound \in {"c", "h"}
               THEN frame.x_min = ExtNeg(m) /\ frame.x_max = m
               ELSE frame.x_min = x_min /\ frame.x_max = x_max

\* glyphogram('MS1870an18xn10S388008xn4', bound='c'): the bounds -18 and 8 become -18 and 18
C10_Witness ==
    /\ pc = "pad" /\ op = "glyphogram" /\ arg.bound = "c"
    /\ arg.ksw_string.shape = "raw"
    /\ min_coordinates(frame.layout, FALSE) = <<Fin(0 - 18), Fin(0 - 10)>>
    /\ frame.layout[1][2] = <<Fin(8), Fin(0 - 4)>>
    /\ frame.x_min = Fin(0 - 18) /\ frame.x_max = Fin(18)
    /\ frame.y_min = Fin(0 - 10) /\ frame.y_max = Fin(0 - 4)

GlyphReturned == pc = "returned" /\ op = "glyphogram"

\* the smallest element of a set of integers
SetMin(S) == CHOOSE m \in S : \A n \in S : m <= n

\* every body symbol of the string has a glyph in the font
AllGlyphsIn(body, font) == \A i \in 1..Len(body) : Tail(body[i].sym) \in font.glyphs

MaxSparseBody == 2

SparseSymbols ==
    {<<"S", "1", "8", "7", "0", "a">>, <<"S", "3", "8", "8", "0", "0">>,
     <<"S", "3", "f", "f", "5", "f">>}

SparseTokens == {[sym |-> k, x |-> c[1], y |-> c[2]] : k \in SparseSymbols, c \in {<<0 - 18, 0 - 10>>, <<8, 4>>}}

SparseStrings ==
    {WordInput(IF e = <<>> THEN "raw" ELSE "layout", <<>>, "M", e, b) :
        e \in {<<>>, <<40, 69, 0>>},
        b \in UNION {[1..k -> SparseTokens] : k \in 0..MaxSparseBody}}

SparseFonts == {[name |-> "font_svg1", glyphs |-> g] : g \in SUBSET {Tail(k) : k \in SparseSymbols}}

\* lines 45-47, as CallGlyphogram, on the strings and fonts above
CallGlyphogramSparse ==
    /\ Idle
    /\ \E k \in SparseStrings, bound \in {"None", "c"}, colorize \in BOOLEAN,
          font \in SparseFonts :
          LET a == [ksw_string |-> k, pad |-> 1, bound |-> bound, line |-> "#000000",
                    fill |-> "#ffffff", colorize |-> colorize, font |-> font]
              layout == parse(k.text)
          IN  /\ op' = "glyphogram"
              /\ arg' = a
              /\ IF layout.kind # "ok"
                 THEN pc' = "returned" /\ ret' = layout /\ frame' = <<>>
                 ELSE /\ pc' = "center"
                      /\ ret' = <<>>
                      /\ frame' = [layout |-> layout.value,
                                   x_max |-> layout.value[1][2][1],
                                   y_max |-> layout.value[1][2][2],
                                   x_min |-> min_coordinates(layout.value, FALSE)[1],
                                   y_min |-> min_coordinates(layout.value, FALSE)[2]]

NextSparse ==
    \/ CallGlyphogramSparse
    \/ GlyphCenter
    \/ GlyphPad
    \/ GlyphPlace
    \/ GlyphEmit
    \/ Done

SpecSparse == Init /\ [][NextSparse]_vars

\* the positions of the body symbols that have no glyph in the font
MissingAt(body, font) == {i \in 1..Len(body) : Tail(body[i].sym) \notin font.glyphs}

\* the positions of the body symbols that have no category
UntypedAt(body) == {i \in 1..Len(body) : symbol_type_of_key(body[i].sym).kind # "ok"}

MaxIdText == 3

IdChars == {"S", "1", "a", "F", "g", " ", "-", "_"}

\* every text of up to MaxIdText of the characters, and some whole keys
IdTexts ==
    UNION {[1..k -> IdChars] : k \in 0..MaxIdText}
    \cup {KeyText(cat, sub, marked, upper) :
             cat \in {FirstCat, 678, LastCat, LastKeyCat}, sub \in {0, LastSub},
             marked \in BOOLEAN, upper \in BOOLEAN}

\* symbol_id(text)
CallSymbolId ==
    /\ Idle
    /\ \E t \in IdTexts : Becomes(Returned("symbol_id", t, symbol_id(t)))
    /\ UNCHANGED frame

NextSymbolId ==
    \/ CallSymbolId
    \/ Done

SpecSymbolId == Init /\ [][NextSymbolId]_vars

\* the characters of a key after its optional leading 'S'
AfterMarker(t) == IF t # <<>> /\ t[1] = "S" THEN Tail(t) ELSE t

\* at least three characters follow the optional 'S' and the first three are hex digits
WellFormedKey(t) ==
    /\ Len(AfterMarker(t)) >= 3
    /\ \A i \in 1..3 : IsHexChar(AfterMarker(t)[i])

\* C13: symbol_id returns the value of the three hex digits after the optional 'S' of a
\* well-formed key, and raises (never returns a number) for a text that is not hex or
\* has fewer than three hex digits after the optional marker.
C13_SymbolIdValidates ==
    (pc = "returned" /\ op = "symbol_id") =>
        IF WellFormedKey(arg)
        THEN ret = Return(HexValue(SubSeq(AfterMarker(arg), 1, 3)))
        ELSE ret.kind # "ok"

\* the smallest and the largest of a set of integers, the fold seeds when it is empty
ExtMinOf(S) == IF S = {} THEN PosInf ELSE Fin(SetMin(S))

ExtMaxOf(S) == IF S = {} THEN NegInf ELSE Fin(SetMax(S))

BodyXs(b) == {b[i].x : i \in 1..Len(b)}

BodyYs(b) == {b[i].y : i \in 1..Len(b)}

\* glyphogram has parsed a raw, layout-annotated or punctuation string and has its bounds
BoundsTaken ==
    /\ pc = "center" /\ op = "glyphogram"
    /\ arg.ksw_string.shape \in {"raw", "layout", "punct"}

\* a <= b
ExtLeq(a, b) == a = b \/ ExtLess(a, b)

\* C14 as stated: the component-wise minimum and maximum of the body token coordinates of
\* the parsed cluster are the (x_min, y_min) and (x_max, y_max) glyphogram takes as its
\* bounding box before centering and padding, so that x_min <= x_max and y_min <= y_max.
C14_BoundsAreBodyExtrema ==
    BoundsTaken =>
        LET b == arg.ksw_string.body
        IN  /\ frame.x_min = ExtMinOf(BodyXs(b)) /\ frame.y_min = ExtMinOf(BodyYs(b))
            /\ frame.x_max = ExtMaxOf(BodyXs(b)) /\ frame.y_max = ExtMaxOf(BodyYs(b))
            /\ ExtLeq(frame.x_min, frame.x_max) /\ ExtLeq(frame.y_min, frame.y_max)

\* C14 amended: (x_min, y_min) is the component-wise minimum of the body token
\* coordinates (+inf for an empty body) for every string; (x_max, y_max) is their
\* component-wise maximum only for a string without explicit extent (-inf for an empty
\* body), where x_min <= x_max and y_min <= y_max hold when the body is not empty; with
\* an explicit extent (x_max, y_max) is the extent, and for punctuation it is the
\* negated coordinate of the symbol.
C14_BoundsRoundTrip ==
    BoundsTaken =>
        LET b == arg.ksw_string.body
            shape == arg.ksw_string.shape
        IN  /\ frame.x_min = ExtMinOf(BodyXs(b)) /\ frame.y_min = ExtMinOf(BodyYs(b))
            /\ shape = "raw" =>
                  /\ frame.x_max = ExtMaxOf(BodyXs(b)) /\ frame.y_max = ExtMaxOf(BodyYs(b))
                  /\ b # <<>> =>
                        ExtLeq(frame.x_min, frame.x_max) /\ ExtLeq(frame.y_min, frame.y_max)
            /\ shape = "layout" =>
                  /\ frame.x_max = Fin(arg.ksw_string.extent[1])
                  /\ frame.y_max = Fin(arg.ksw_string.extent[2])
            /\ shape = "punct" =>
                  /\ frame.x_max = Fin(0 - b[1].x) /\ frame.y_max = Fin(0 - b[1].y)

\* glyphogram('MS1870a36x4S388008xn4'): bounds (8, -4) to (36, 4), from two tokens
C14_Witness ==
    /\ BoundsTaken /\ arg.ksw_string.shape = "raw"
    /\ Len(arg.ksw_string.body) = 2
    /\ frame.x_min = Fin(8) /\ frame.y_min = Fin(0 - 4)
    /\ frame.x_max = Fin(36) /\ frame.y_max = Fin(4)

(***************************************************************************)
(* Two calls of ISWAFont.svg_snippet (iswa_font.py lines 53-74) on one     *)
(* font object, each in a thread of its own.  The font holds one cursor,   *)
(* self.c, made by sqlite3.connect(db).cursor() in the thread that built   *)
(* the font; a connection made with the default check_same_thread refuses  *)
(* every use from another thread with ProgrammingError.  frame holds the   *)
(* rows the cursor has pending and, per thread, its position and result.   *)
(***************************************************************************)
SnippetThreads == {1, 2}

SnippetKeys ==
    {<<"S", "1", "0", "0", "0", "0">>, <<"S", "1", "0", "0", "0", "f">>,
     <<"S", "1", "0", "1", "0", "0">>, <<"S", "3", "8", "b", "5", "f">>}

\* the addresses the glyph store has a record for: all of the keys but S38b5f
StoreCodes == {1, 16, 97}

\* the rows the query selects for an address: its record, or none
QueryRows(address) == IF address \in StoreCodes THEN <<[glyph |-> address]>> ELSE <<>>

\* the two threads start svg_snippet, each with a key of its own; owner is the thread
\* that built the font (0: a third thread, as for the module-level DEFAULT)
StartSnippets ==
    /\ Idle
    /\ \E k1 \in SnippetKeys, k2 \in SnippetKeys, owner \in {0} \cup SnippetThreads :
          /\ k1 # k2
          /\ op' = "svg_snippet"
          /\ arg' = [keys |-> <<k1, k2>>, owner |-> owner]
          /\ frame' = [rows |-> <<>>,
                       at |-> [t \in SnippetThreads |-> "execute"],
                       result |-> [t \in SnippetThreads |-> <<>>]]
    /\ pc' = "threads"
    /\ ret' = <<>>

\* lines 71-72: code = self.code(symbol); self.c.execute(query, (code, code))
SnippetExecute(t) ==
    /\ pc = "threads" /\ frame.at[t] = "execute"
    /\ IF code(arg.keys[t]).kind # "ok"
       THEN frame' = [frame EXCEPT !.at[t] = "done", !.result[t] = code(arg.keys[t])]
       ELSE IF t # arg.owner
       THEN frame' = [frame EXCEPT !.at[t] = "done",
                                   !.result[t] = Raise("ProgrammingError")]
       ELSE frame' = [frame EXCEPT !.rows = QueryRows(code(arg.keys[t]).value),
                                   !.at[t] = "fetch"]
    /\ UNCHANGED <<pc, op, arg, ret>>

\* lines 73-74: glyph, w, h = self.c.fetchone(); return glyph, w, h
SnippetFetch(t) ==
    /\ pc = "threads" /\ frame.at[t] = "fetch"
    /\ IF frame.rows = <<>>
       THEN frame' = [frame EXCEPT !.at[t] = "done", !.result[t] = Raise("TypeError")]
       ELSE frame' = [frame EXCEPT !.rows = Tail(@), !.at[t] = "done",
                                   !.result[t] = Return(Head(frame.rows))]
    /\ UNCHANGED <<pc, op, arg, ret>>

\* both calls have ended
SnippetsJoin ==
    /\ pc = "threads"
    /\ \A t \in SnippetThreads : frame.at[t] = "done"
    /\ pc' = "returned"
    /\ ret' = frame.result
    /\ frame' = <<>>
    /\ UNCHANGED <<op, arg>>

NextSnippet ==
    \/ StartSnippets
    \/ \E t \in SnippetThreads : SnippetExecute(t)
    \/ \E t \in SnippetThreads : SnippetFetch(t)
    \/ SnippetsJoin
    \/ Done

SpecSnippet == Init /\ [][NextSnippet]_vars

\* C15: two svg_snippet calls for different keys, run concurrently on one font object
\* with no synchronization, each return the record of their own address, under every
\* interleaving of their steps.
C15_ConcurrentLookupsOwnRecord ==
    (/\ pc = "returned" /\ op = "svg_snippet"
     /\ \A t \in SnippetThreads : code(arg.keys[t]).value \in StoreCodes) =>
        \A t \in SnippetThreads : ret[t] = Return([glyph |-> code(arg.keys[t]).value])

(***************************************************************************)
(* Calls of min_coordinates on clusters as parse returns them.             *)
(***************************************************************************)
MaxMinBody == 2

MinCoords == {<<x, y>> : x \in {0 - 18, 0, 8}, y \in {0 - 10, 0, 4}}

\* clusters of an anchor with explicit extent and k body tokens
MinClustersOf(k) ==
    {<<<<<<"M">>, <<Fin(e[1]), Fin(e[2])>>>>>> \o
        [i \in 1..k |-> <<<<"S", "1", "8", "7", "0", "a">>, <<Fin(b[i][1]), Fin(b[i][2])>>>>] :
        e \in {<<0, 0>>, <<40, 69>>}, b \in [1..k -> MinCoords]}

MinClusters == UNION {MinClustersOf(k) : k \in 0..MaxMinBody}

\* min_coordinates(cluster, min_is_zero)
CallMinCoordinates ==
    /\ Idle
    /\ \E cluster \in MinClusters, min_is_zero \in BOOLEAN :
          LET a == [cluster |-> cluster, min_is_zero |-> min_is_zero]
          IN  Becomes(Returned("min_coordinates", a, min_coordinates(cluster, min_is_zero)))
    /\ UNCHANGED frame

NextMin ==
    \/ CallMinCoordinates
    \/ Done

SpecMin == Init /\ [][NextMin]_vars

\* the k-th coordinates of the body tokens of a cluster, the anchor left out
BodyComponent(cluster, k) == {cluster[i][2][k].v : i \in 2..Len(cluster)}

\* C16: min_coordinates ignores the anchor token and folds over the body tokens: with
\* min_is_zero it returns (min(0, min body x), min(0, min body y)), never positive and
\* (0, 0) for an empty body; without it the component-wise minimum of the body
\* coordinates, and (+inf, +inf) for an empty body.
C16_MinCoordinates ==
    (pc = "returned" /\ op = "min_coordinates") =>
        \A k \in {1, 2} :
            LET body == BodyComponent(arg.cluster, k)
            IN  IF arg.min_is_zero
                THEN /\ ret[k] = Fin(SetMin(body \cup {0}))
                     /\ ~ExtLess(Fin(0), ret[k])
                     /\ body = {} => ret[k] = Fin(0)
                ELSE ret[k] = ExtMinOf(body)

\* min_coordinates([('M', (0, 0)), (S1870a, (8, 4)), (S1870a, (8, 4))], False) = (8, 4):
\* the anchor lies below the body and is left out
C16_Witness ==
    /\ pc = "returned" /\ op = "min_coordinates" /\ ~arg.min_is_zero
    /\ Len(arg.cluster) = 3
    /\ arg.cluster[1][2] = <<Fin(0), Fin(0)>>
    /\ ret = <<Fin(8), Fin(4)>>

\* C17: the centering step is idempotent: the bounds after the two centering blocks of
\* glyphogram are the bounds one block gives, for every pair (x_min, x_max) it can
\* start from, the infinite ones of an empty body included, and they satisfy
\* x_min = -x_max.
C17_CenteringIdempotent ==
    (pc = "pad" /\ op = "glyphogram" /\ arg.bound \in {"c", "h"}) =>
        LET once == Center(arg.bound, min_coordinates(frame.layout, FALSE)[1],
                           frame.layout[1][2][1])
        IN  /\ frame.x_min = once[1] /\ frame.x_max = once[2]
            /\ frame.x_min = ExtNeg(frame.x_max)

\* glyphogram('M', bound='h'): the bounds +inf and -inf of the bare marker stay as
\* they are through both blocks
C17_Witness ==
    /\ pc = "pad" /\ op = "glyphogram" /\ arg.bound = "h"
    /\ arg.ksw_string.shape = "raw" /\ arg.ksw_string.body = <<>>
    /\ frame.x_min = PosInf /\ frame.x_max = NegInf

(***************************************************************************)
(* parse of a body string with and without a group prefix before it.       *)
(***************************************************************************)
\* the text with its hex digits a-f in upper case
UpperHex(t) ==
    [i \in 1..Len(t) |-> IF t[i] \in {"a", "b", "c", "d", "e", "f"} THEN Upper(t[i]) ELSE t[i]]

\* parse(p + b) and parse(b), b written with lower-case or upper-case hex digits
CallParsePrefixPair ==
    /\ Idle
    /\ \E p \in PrefixSample, m \in {"B", "M"}, e \in {<<>>, <<18, 33, 0>>},
          b \in BodiesUpTo(MaxBody), upper \in BOOLEAN :
          LET word == FormatWord(<<>>, m, e, b)
              a == [prefix |-> FormatPrefix(p), body |-> IF upper THEN UpperHex(word) ELSE word,
                    tokens |-> b]
          IN  Becomes(Returned("parse2", a, <<parse(a.prefix \o a.body), parse(a.body)>>))
    /\ UNCHANGED frame

NextPrefix ==
    \/ CallParsePrefixPair
    \/ Done

SpecPrefix == Init /\ [][NextPrefix]_vars

\* C18: group-prefix symbols take no part in layout: parse(p + b) equals parse(b) for a
\* well-formed body string b and a prefix p of 'A' and one or more symbol keys, and the
\* prefix removal leaves b intact, also when the keys of p occur in b.
C18_PrefixIgnored ==
    (pc = "returned" /\ op = "parse2") =>
        /\ ret[1] = ret[2]
        /\ WorkingString(arg.prefix \o arg.body) = arg.body

\* ---------------------------------------------------------------------------
\* swflashcards.py: reading sign puddle entries into a frequency-ordered list
\* ---------------------------------------------------------------------------

\* entries read by one run of main, over all its files
MaxEntries == 3

Glosses == {"a", "b"}

Frequencies == {1, 2}

\* a scorer gives a gloss a frequency or None
NoFrequency == [kind |-> "None"]

Scorers == [Glosses -> {NoFrequency} \cup {Return(f) : f \in Frequencies}]

SignStrings == {<<"M">>, <<"M", "5", "x", "5">>}

GlossTuples == {<<"a">>, <<"b">>, <<"a", "b">>}

\* an entry is the texts of its term children and of its text children
EntrySample ==
    {[term |-> <<s>> \o g, text |-> <<>>] : s \in SignStrings, g \in GlossTuples}
    \cup {[term |-> <<<<"M">>>>, text |-> <<>>],
          [term |-> <<<<"M">>, "a">>, text |-> <<<<"M", "5", "1", "8", "x", "5">>>>],
          [term |-> <<<<"M">>, "b">>, text |-> <<<<"M", "e">>>>]}

FilesUpTo(n) == UNION {[1..k -> EntrySample] : k \in 0..n}

\* Sign.__init__
Sign(sign, glosses, comment) == [sign_string |-> sign, glosses |-> glosses, comment |-> comment]

\* Sign.from_spml_entry: the first term is the sign, the others are the glosses
from_spml_entry(spml_entry) ==
    IF Len(spml_entry.term) < 2 THEN Raise("UncleanEntryError")
    ELSE IF Len(spml_entry.text) = 0
    THEN Return(Sign(Head(spml_entry.term), Tail(spml_entry.term), <<>>))
    ELSE IF Len(spml_entry.text[1]) = 0 THEN Raise("TypeError")
    ELSE IF spml_entry.text[1][1] # "M"
    THEN Return(Sign(Head(spml_entry.term), Tail(spml_entry.term), spml_entry.text[1]))
    ELSE IF Len(spml_entry.text[1]) < 5 THEN Raise("IndexError")
    ELSE IF spml_entry.text[1][5] = "x" THEN Raise("UncleanEntryError")
    ELSE Return(Sign(Head(spml_entry.term), Tail(spml_entry.term), spml_entry.text[1]))

\* lines 112-120: the negated sum of the frequencies of the glosses the scorer knows
RECURSIVE ScoreGlosses(_, _, _, _)
ScoreGlosses(glosses, scorer, frequency, is_strange) ==
    IF glosses = <<>> THEN [frequency |-> frequency, is_strange |-> is_strange]
    ELSE IF scorer[Head(glosses)].kind = "ok"
    THEN ScoreGlosses(Tail(glosses), scorer, frequency - scorer[Head(glosses)].value, FALSE)
    ELSE ScoreGlosses(Tail(glosses), scorer, frequency, is_strange)

bisect_front(a, x) == 0

RECURSIVE bisect_right(_, _, _, _)
bisect_right(a, x, lo, hi) ==
    IF lo < hi
    THEN IF x < a[((lo + hi) \div 2) + 1]
         THEN bisect_right(a, x, lo, (lo + hi) \div 2)
         ELSE bisect_right(a, x, ((lo + hi) \div 2) + 1, hi)
    ELSE lo

\* bisect.bisect: the place after every element not greater than x
bisect(a, x) == bisect_right(a, x, 0, Len(a))

\* list.insert
ListInsert(list, index, v) == SubSeq(list, 1, index) \o <<v>> \o SubSeq(list, index + 1, Len(list))

\* {}
EmptyDict == [k \in {} |-> <<>>]

\* dict[key] = v
DictSet(dict, key, v) == [k \in DOMAIN dict \cup {key} |-> IF k = key THEN v ELSE dict[k]]

\* lines 122-136: file the sign under its glosses
FileSign(st, sign, score) ==
    IF sign.glosses \in DOMAIN st.signs_by_gloss
    THEN IF Len(sign.sign_string) > Len(st.signs_by_gloss[sign.glosses].sign_string)
         THEN [st EXCEPT !.strange = Append(@, st.signs_by_gloss[sign.glosses]),
                         !.signs_by_gloss = DictSet(@, sign.glosses, sign)]
         ELSE [st EXCEPT !.strange = Append(@, sign)]
    ELSE IF score.is_strange
    THEN [st EXCEPT !.strange = Append(@, sign)]
    ELSE [st EXCEPT !.scores = ListInsert(@, bisect(st.scores, score.frequency), score.frequency),
                    !.signs_by_gloss = DictSet(@, sign.glosses, sign),
                    !.ordered_glosses = ListInsert(@, bisect(st.scores, score.frequency),
                                                   sign.glosses)]

\* lines 105-136: one turn of the loop over the entries
ReadEntry(st, made, entry, scorer) ==
    IF made.kind = "UncleanEntryError" THEN [st EXCEPT !.rejected = Append(@, entry)]
    ELSE FileSign(st, made.value, ScoreGlosses(made.value.glosses, scorer, 0, TRUE))

\* parse_spml: the lists after every entry read, and how the call ended
RECURSIVE ReadEntries(_, _, _, _)
ReadEntries(st, entries, scorer, trail) ==
    IF entries = <<>>
    THEN [trail |-> trail, result |-> Return(<<st.signs_by_gloss, st.strange>>)]
    ELSE IF from_spml_entry(Head(entries)).kind \in {"TypeError", "IndexError"}
    THEN [trail |-> trail, result |-> from_spml_entry(Head(entries))]
    ELSE ReadEntries(ReadEntry(st, from_spml_entry(Head(entries)), Head(entries), scorer),
                     Tail(entries), scorer,
                     Append(trail, ReadEntry(st, from_spml_entry(Head(entries)),
                                             Head(entries), scorer)))

parse_spml(entries, signs_by_gloss, ordered_glosses, scores, scorer) ==
    ReadEntries([signs_by_gloss |-> signs_by_gloss, ordered_glosses |-> ordered_glosses,
                 scores |-> scores, strange |-> <<>>, rejected |-> <<>>],
                entries, scorer,
                <<[signs_by_gloss |-> signs_by_gloss, ordered_glosses |-> ordered_glosses,
                   scores |-> scores, strange |-> <<>>, rejected |-> <<>>]>>)

\* main, lines 189-203: a scorer and three empty collections
StartMain ==
    /\ Idle
    /\ \E scorer \in Scorers :
          frame' = [signs |-> EmptyDict, glosses |-> <<>>, scores |-> <<>>, scorer |-> scorer,
                    read |-> 0, trail |-> <<>>]
    /\ pc' = "main"
    /\ op' = "parse_spml"
    /\ arg' = <<>>
    /\ ret' = <<>>

\* main, lines 204-206: the next file is read into the shared collections
CallParseSpml ==
    /\ pc = "main"
    /\ \E file \in FilesUpTo(MaxEntries - frame.read) :
          LET out == parse_spml(file, frame.signs, frame.glosses, frame.scores, frame.scorer)
              last == out.trail[Len(out.trail)]
          IN  /\ frame' = [frame EXCEPT !.signs = last.signs_by_gloss,
                                        !.glosses = last.ordered_glosses,
                                        !.scores = last.scores,
                                        !.read = @ + Len(file),
                                        !.trail = out.trail]
              /\ arg' = file
              /\ ret' = out.result
              /\ pc' = IF out.result.kind = "ok" THEN "main" ELSE "returned"
    /\ op' = "parse_spml"

\* main, line 204: no file is left
MainEnd ==
    /\ pc = "main"
    /\ pc' = "returned"
    /\ UNCHANGED <<op, arg, ret, frame>>

NextSpml == \/ StartMain \/ CallParseSpml \/ MainEnd \/ Done

SpecSpml == Init /\ [][NextSpml]_vars

\* the summed frequency of the glosses the scorer knows
RECURSIVE SummedFrequency(_, _)
SummedFrequency(glosses, scorer) ==
    IF glosses = <<>> THEN 0
    ELSE (IF scorer[Head(glosses)].kind = "ok" THEN scorer[Head(glosses)].value ELSE 0)
         + SummedFrequency(Tail(glosses), scorer)

\* the entry read at step i of the last call met a sign filed under the same glosses
MetDuplicate(i) ==
    /\ from_spml_entry(arg[i]).kind = "ok"
    /\ from_spml_entry(arg[i]).value.glosses \in DOMAIN frame.trail[i].signs_by_gloss

MetLongerDuplicate(i) ==
    /\ MetDuplicate(i)
    /\ Len(from_spml_entry(arg[i]).value.sign_string)
          > Len(frame.trail[i].signs_by_gloss[from_spml_entry(arg[i]).value.glosses].sign_string)

\* C19: after any entries read by parse_spml over calls that share the three collections,
\* scores is sorted in non-decreasing order, scores and ordered_glosses have the same
\* length, scores[i] is the negated summed frequency of ordered_glosses[i],
\* ordered_glosses holds every key of signs_by_gloss exactly once, and an entry that
\* meets a sign under the same glosses (replacing it when longer) leaves the order as it was.
C19_OrderedByScore ==
    (pc \in {"main", "returned"} /\ op = "parse_spml") =>
        /\ \A i \in 1..Len(frame.scores) : \A j \in i..Len(frame.scores) :
              frame.scores[i] <= frame.scores[j]
        /\ Len(frame.scores) = Len(frame.glosses)
        /\ \A i \in 1..Len(frame.glosses) :
              frame.scores[i] = 0 - SummedFrequency(frame.glosses[i], frame.scorer)
        /\ Range(frame.glosses) = DOMAIN frame.signs
        /\ \A i \in 1..Len(frame.glosses) : \A j \in 1..Len(frame.glosses) :
              frame.glosses[i] = frame.glosses[j] => i = j
        /\ \A i \in 1..(Len(frame.trail) - 1) :
              MetDuplicate(i) =>
                  /\ frame.trail[i + 1].ordered_glosses = frame.trail[i].ordered_glosses
                  /\ frame.trail[i + 1].scores = frame.trail[i].scores
                  /\ MetLongerDuplicate(i) =>
                        frame.trail[i + 1].signs_by_gloss[from_spml_entry(arg[i]).value.glosses]
                            = from_spml_entry(arg[i]).value

\* two signs with different scores are in order after a second call, which replaced a
\* sign by a longer one
C19_Witness ==
    /\ pc = "main" /\ op = "parse_spml"
    /\ Len(frame.scores) = 2
    /\ frame.scores[1] < frame.scores[2]
    /\ frame.read > Len(arg)
    /\ \E i \in 1..(Len(frame.trail) - 1) : MetLongerDuplicate(i)

====
